---- MODULE Spec2Model ----
(***************************************************************************)
(* Model of app/utils/data_processor.py of travelchat: the message-field   *)
(* parser parse_messages_json, the per-message text normalisation and the  *)
(* row driver prepare_documents_from_df.                                   *)
(*                                                                         *)
(* Python values are tagged records:                                       *)
(*   [t |-> "str",  s |-> <<chars>>]     str, a sequence of 1-char strings *)
(*   [t |-> "int",  n |-> n]             int                               *)
(*   [t |-> "none"]                      None                              *)
(*   [t |-> "float", sign |-> 1 / -1]    float("inf") / float("-inf")      *)
(*   [t |-> "list", items |-> <<...>>]   list                              *)
(*   [t |-> "dict", d |-> [keys -> values]]  dict, keys are char sequences *)
(* A call that can raise yields [ok |-> TRUE, val |-> v] or                *)
(* [ok |-> FALSE, exc |-> "<exception class>"].                            *)
(***************************************************************************)
EXTENDS Integers, Sequences, FiniteSets, TLC

VARIABLES df, pc, pos, documents, exc, arg, ret, weaviate_client, _client, ext, calls

vars == <<df, pc, pos, documents, exc, arg, ret, weaviate_client, _client, ext, calls>>

\* the service layer: the handle of app/main.py, the cached client of
\* app/utils/weaviate_utils.py, what the external services do during the call in
\* progress, and the calls made to them
svc == <<weaviate_client, _client, ext, calls>>

-----------------------------------------------------------------------------
(* Python values *)

PyStr(s) == [t |-> "str", s |-> s]
PyInt(n) == [t |-> "int", n |-> n]
PyNone == [t |-> "none"]
PyInf == [t |-> "float", sign |-> 1]
PyNegInf == [t |-> "float", sign |-> -1]
PyList(items) == [t |-> "list", items |-> items]
PyDict(d) == [t |-> "dict", d |-> d]

Ok(v) == [ok |-> TRUE, val |-> v]
Raise(e) == [ok |-> FALSE, exc |-> e]

EmptyStr == <<>>

\* bool(v): the truth value Python gives a value in `if v` / `not v`
Truthy(v) ==
  CASE v.t = "str" -> v.s # <<>>
    [] v.t = "int" -> v.n # 0
    [] v.t = "none" -> FALSE
    [] v.t = "float" -> TRUE
    [] v.t = "list" -> v.items # <<>>
    [] v.t = "dict" -> DOMAIN v.d # {}
    [] v.t = "client" -> TRUE

\* dict.get(key, default)
DictGet(m, key, default) == IF key \in DOMAIN m.d THEN m.d[key] ELSE default

K_text == <<"t", "e", "x", "t">>
K_id == <<"i", "d">>
K_date_unixtime == <<"d", "a", "t", "e", "_", "u", "n", "i", "x", "t", "i", "m", "e">>

-----------------------------------------------------------------------------
(* str operations *)

Whitespace == {" ", "\n", "\t", "\r"}

RECURSIVE LStrip(_)
LStrip(s) == IF s # <<>> /\ Head(s) \in Whitespace THEN LStrip(Tail(s)) ELSE s

RECURSIVE RStrip(_)
RStrip(s) ==
  IF s # <<>> /\ s[Len(s)] \in Whitespace THEN RStrip(SubSeq(s, 1, Len(s) - 1)) ELSE s

\* str.strip()
Strip(s) == RStrip(LStrip(s))

\* sep.join(parts), parts a sequence of char sequences
RECURSIVE Join(_, _)
Join(sep, parts) ==
  IF parts = <<>> THEN <<>>
  ELSE IF Len(parts) = 1 THEN parts[1]
  ELSE parts[1] \o sep \o Join(sep, Tail(parts))

Digits == <<"0", "1", "2", "3", "4", "5", "6", "7", "8", "9">>
DigitSet == {Digits[k] : k \in 1..Len(Digits)}
DigitVal(c) == (CHOOSE k \in 1..Len(Digits) : Digits[k] = c) - 1

RECURSIVE NatToStr(_)
NatToStr(n) == IF n < Len(Digits) THEN <<Digits[n + 1]>>
               ELSE NatToStr(n \div Len(Digits)) \o <<Digits[(n % Len(Digits)) + 1]>>

\* str(n) for an int
IntToStr(n) == IF n < 0 THEN <<"-">> \o NatToStr(-n) ELSE NatToStr(n)

-----------------------------------------------------------------------------
(* json.dumps / json.loads over str, int, None, list and dict values *)

\* the escape json.dumps writes for one character of a str
EscapeChar(c) ==
  CASE c = "\"" -> <<"\\", "\"">>
    [] c = "\\" -> <<"\\", "\\">>
    [] c = "\n" -> <<"\\", "n">>
    [] c = "\t" -> <<"\\", "t">>
    [] c = "\r" -> <<"\\", "r">>
    [] OTHER -> <<c>>

RECURSIVE EscapeStr(_)
EscapeStr(s) == IF s = <<>> THEN <<>> ELSE EscapeChar(Head(s)) \o EscapeStr(Tail(s))

DumpStr(s) == <<"\"">> \o EscapeStr(s) \o <<"\"">>

\* the order in which the keys of a dict are written
KeyOrder == <<K_id, K_date_unixtime, K_text>>

\* one "key": value member of an object
RECURSIVE json_dumps(_)
DumpMember(d, key) == DumpStr(key) \o <<":", " ">> \o json_dumps(d[key])

DumpMembers(d, keys) == Join(<<",", " ">>, [k \in 1..Len(keys) |-> DumpMember(d, keys[k])])

json_dumps(v) ==
  CASE v.t = "str" -> DumpStr(v.s)
    [] v.t = "int" -> IntToStr(v.n)
    [] v.t = "none" -> <<"n", "u", "l", "l">>
    [] v.t = "list" ->
         <<"[">> \o Join(<<",", " ">>, [k \in 1..Len(v.items) |-> json_dumps(v.items[k])])
                 \o <<"]">>
    [] v.t = "dict" ->
         <<"{">> \o DumpMembers(v.d, SelectSeq(KeyOrder, LAMBDA k : k \in DOMAIN v.d))
                 \o <<"}">>

\* A parse step yields [ok |-> TRUE, val |-> v, next |-> position after v]
\* or [ok |-> FALSE].
Parsed(v, next) == [ok |-> TRUE, val |-> v, next |-> next]
NoParse == [ok |-> FALSE]

RECURSIVE SkipWs(_, _)
SkipWs(s, i) == IF i <= Len(s) /\ s[i] \in Whitespace THEN SkipWs(s, i + 1) ELSE i

\* the character an escape \c stands for inside a JSON string
Unescape(c) ==
  CASE c = "\"" -> <<"\"">>
    [] c = "\\" -> <<"\\">>
    [] c = "/" -> <<"/">>
    [] c = "n" -> <<"\n">>
    [] c = "t" -> <<"\t">>
    [] c = "r" -> <<"\r">>
    [] OTHER -> <<>>

\* s[i] is the first character after the opening quote
RECURSIVE ParseString(_, _, _)
ParseString(s, i, acc) ==
  IF i > Len(s) THEN NoParse
  ELSE IF s[i] = "\"" THEN Parsed(PyStr(acc), i + 1)
  ELSE IF s[i] = "\\" THEN
    IF i + 1 > Len(s) \/ Unescape(s[i + 1]) = <<>> THEN NoParse
    ELSE ParseString(s, i + 2, acc \o Unescape(s[i + 1]))
  ELSE IF s[i] \in {"\n", "\t", "\r"} THEN NoParse
  ELSE ParseString(s, i + 1, Append(acc, s[i]))

\* the digits from s[i] on, folded into acc
RECURSIVE ParseDigits(_, _, _, _)
ParseDigits(s, i, acc, sign) ==
  IF i <= Len(s) /\ s[i] \in DigitSet
  THEN ParseDigits(s, i + 1, acc * Len(Digits) + DigitVal(s[i]), sign)
  ELSE Parsed(PyInt(sign * acc), i)

\* an integer literal: -? (0 | [1-9][0-9]*); s[j] is its first digit
ParseUnsigned(s, j, sign) ==
  IF j > Len(s) \/ s[j] \notin DigitSet THEN NoParse
  ELSE IF s[j] = "0" THEN Parsed(PyInt(0), j + 1)
  ELSE ParseDigits(s, j, 0, sign)

ParseNumber(s, i) == IF s[i] = "-" THEN ParseUnsigned(s, i + 1, -1) ELSE ParseUnsigned(s, i, 1)

RECURSIVE ParseValue(_, _)
RECURSIVE ParseElements(_, _, _)
RECURSIVE ParseMembers(_, _, _)

\* after "[": s[j] is the first character that is not whitespace
ParseArray(s, j) ==
  IF j <= Len(s) /\ s[j] = "]" THEN Parsed(PyList(<<>>), j + 1) ELSE ParseElements(s, j, <<>>)

\* after "{": s[j] is the first character that is not whitespace
ParseObject(s, j) ==
  IF j <= Len(s) /\ s[j] = "}" THEN Parsed(PyDict(<<>>), j + 1) ELSE ParseMembers(s, j, <<>>)

\* s[i] is the first character of a value
ParseValue(s, i) ==
  IF i > Len(s) THEN NoParse
  ELSE IF s[i] = "[" THEN ParseArray(s, SkipWs(s, i + 1))
  ELSE IF s[i] = "{" THEN ParseObject(s, SkipWs(s, i + 1))
  ELSE IF s[i] = "\"" THEN ParseString(s, i + 1, <<>>)
  ELSE IF s[i] = "-" \/ s[i] \in DigitSet THEN ParseNumber(s, i)
  ELSE IF i + 3 <= Len(s) /\ SubSeq(s, i, i + 3) = <<"n", "u", "l", "l">>
    THEN Parsed(PyNone, i + 4)
  ELSE NoParse

\* after the elements acc of an array: s[j] must be "]" or ","
ElementEnd(s, j, acc) ==
  IF j > Len(s) THEN NoParse
  ELSE IF s[j] = "]" THEN Parsed(PyList(acc), j + 1)
  ELSE IF s[j] = "," THEN ParseElements(s, SkipWs(s, j + 1), acc)
  ELSE NoParse

ElementParsed(s, acc, r) ==
  IF r.ok THEN ElementEnd(s, SkipWs(s, r.next), Append(acc, r.val)) ELSE NoParse

\* the elements of an array after "[" or ","
ParseElements(s, i, acc) == ElementParsed(s, acc, ParseValue(s, i))

\* after the members d of an object: s[j] must be "}" or ","
MemberEnd(s, j, d) ==
  IF j > Len(s) THEN NoParse
  ELSE IF s[j] = "}" THEN Parsed(PyDict(d), j + 1)
  ELSE IF s[j] = "," THEN ParseMembers(s, SkipWs(s, j + 1), d)
  ELSE NoParse

\* a repeated key keeps the last value
MemberParsed(s, acc, key, r) ==
  IF r.ok THEN MemberEnd(s, SkipWs(s, r.next), (key :> r.val) @@ acc) ELSE NoParse

\* after a key: s[c] must be ":"
MemberColon(s, c, acc, key) ==
  IF c > Len(s) \/ s[c] # ":" THEN NoParse
  ELSE MemberParsed(s, acc, key, ParseValue(s, SkipWs(s, c + 1)))

MemberKey(s, acc, k) == IF k.ok THEN MemberColon(s, SkipWs(s, k.next), acc, k.val.s) ELSE NoParse

\* the members of an object after "{" or ","
ParseMembers(s, i, acc) ==
  IF i > Len(s) \/ s[i] # "\"" THEN NoParse ELSE MemberKey(s, acc, ParseString(s, i + 1, <<>>))

\* a document is one value with nothing but whitespace around it
Document(s, r) == IF r.ok /\ SkipWs(s, r.next) > Len(s) THEN Ok(r.val) ELSE Raise("JSONDecodeError")

\* json.loads(s): the decoded value, or JSONDecodeError
json_loads(s) == Document(s, ParseValue(s, SkipWs(s, 1)))

-----------------------------------------------------------------------------
(* app/utils/data_processor.py *)

\* x >>= F for results: F on the value of x, or the exception x raised
Then(x, F(_)) == IF x.ok THEN F(x.val) ELSE x

\* lines 15-18: the try/except around json.loads
CatchJSONDecodeError(r) ==
  IF r.ok THEN r ELSE IF r.exc = "JSONDecodeError" THEN Ok(PyList(<<>>)) ELSE r

\* parse_messages_json(messages_data)
parse_messages_json(messages_data) ==
  IF messages_data.t = "str" THEN CatchJSONDecodeError(json_loads(messages_data.s))
  ELSE IF messages_data.t = "list" THEN Ok(messages_data)
  ELSE Ok(PyList(<<>>))

\* str(v) for the values a text field or a segment holds here
PyStrOf(v) ==
  CASE v.t = "str" -> v.s
    [] v.t = "int" -> IntToStr(v.n)
    [] v.t = "none" -> <<"N", "o", "n", "e">>

\* Segment that trims a segment that is not a dict
Segment_stripped(t) ==
  IF t.t = "dict" THEN DictGet(t, K_text, PyStr(EmptyStr)) ELSE PyStr(Strip(PyStrOf(t)))

\* line 51: one element of the generator handed to " ".join
Segment(t) == IF t.t = "dict" THEN DictGet(t, K_text, PyStr(EmptyStr)) ELSE PyStr(PyStrOf(t))

\* " ".join(values): TypeError unless every value is a str
JoinSegments(values) ==
  IF \E k \in 1..Len(values) : values[k].t # "str" THEN Raise("TypeError")
  ELSE Ok(Join(<<" ">>, [k \in 1..Len(values) |-> values[k].s]))

\* lines 47-55: the text field as one str
TextOf(text) ==
  IF text.t = "list" THEN JoinSegments([k \in 1..Len(text.items) |-> Segment(text.items[k])])
  ELSE IF text.t # "str" THEN Ok(PyStrOf(text))
  ELSE Ok(text.s)

\* lines 46-57: the stripped text of one message
message_text(msg) ==
  IF msg.t # "dict" THEN Raise("AttributeError")
  ELSE Then(TextOf(DictGet(msg, K_text, PyStr(EmptyStr))), LAMBDA text : Ok(Strip(text)))

\* a < b for int and float("inf") / float("-inf") operands
NumLt(a, b) ==
  IF a.t = "float" THEN a.sign < 0 /\ ~(b.t = "float" /\ b.sign < 0)
  ELSE IF b.t = "float" THEN b.sign > 0
  ELSE a.n < b.n

IsNumber(v) == v.t \in {"int", "float"}

\* min(a, b) and max(a, b); TypeError when b cannot be ordered against a float
PyMin(a, b) == IF ~IsNumber(b) THEN Raise("TypeError") ELSE Ok(IF NumLt(b, a) THEN b ELSE a)
PyMax(a, b) == IF ~IsNumber(b) THEN Raise("TypeError") ELSE Ok(IF NumLt(a, b) THEN b ELSE a)

\* NewThread with the trackers starting at 0 in place of the infinities
NewThread_zero ==
  [thread_content |-> <<>>, min_timestamp |-> PyInt(0), max_timestamp |-> PyInt(0),
   message_ids |-> <<>>]

\* NewThread with the trackers left where the document before this row put them
NewThread_carried ==
  [thread_content |-> <<>>,
   min_timestamp |-> IF documents # <<>> /\ documents[Len(documents)].start_time # PyNone
                       THEN documents[Len(documents)].start_time ELSE PyInf,
   max_timestamp |-> IF documents # <<>> /\ documents[Len(documents)].end_time # PyNone
                       THEN documents[Len(documents)].end_time ELSE PyNegInf,
   message_ids |-> <<>>]

\* lines 40-43: the accumulators of one row
NewThread ==
  [thread_content |-> <<>>, min_timestamp |-> PyInf, max_timestamp |-> PyNegInf,
   message_ids |-> <<>>]

\* lines 58-60: the timestamp of one message folded into the running minimum, maximum
FoldMin(min_timestamp, date_unixtime) ==
  IF Truthy(date_unixtime) THEN PyMin(min_timestamp, date_unixtime) ELSE Ok(min_timestamp)
FoldMax(max_timestamp, date_unixtime) ==
  IF Truthy(date_unixtime) THEN PyMax(max_timestamp, date_unixtime) ELSE Ok(max_timestamp)

\* CollectId without the truthiness test of line 61
CollectId_always(message_ids, id) == Append(message_ids, id)

\* lines 61-62
CollectId(message_ids, id) == IF Truthy(id) THEN Append(message_ids, id) ELSE message_ids

\* lines 46-62: the body of the message loop, on accumulators acc
MessageStep(acc, msg) ==
  Then(message_text(msg), LAMBDA text :
    Then(FoldMin(acc.min_timestamp, DictGet(msg, K_date_unixtime, PyNone)), LAMBDA lo :
      Then(FoldMax(acc.max_timestamp, DictGet(msg, K_date_unixtime, PyNone)), LAMBDA hi :
        Ok([thread_content |-> Append(acc.thread_content, text),
            min_timestamp |-> lo,
            max_timestamp |-> hi,
            message_ids |-> CollectId(acc.message_ids, DictGet(msg, K_id, PyNone))]))))

\* the values `for msg in messages` yields, or TypeError
Iterate(messages) ==
  CASE messages.t = "list" -> Ok(messages.items)
    [] messages.t = "dict" ->
         Ok(SelectSeq([k \in 1..Len(KeyOrder) |-> PyStr(KeyOrder[k])],
                      LAMBDA key : key.s \in DOMAIN messages.d))
    [] messages.t = "str" -> Ok([k \in 1..Len(messages.s) |-> PyStr(<<messages.s[k]>>)])
    [] OTHER -> Raise("TypeError")

\* lines 45-62: the message loop over items, from accumulators acc
RECURSIVE MessageLoop(_, _)
MessageLoop(acc, items) ==
  IF items = <<>> THEN Ok(acc)
  ELSE Then(MessageStep(acc, Head(items)), LAMBDA next : MessageLoop(next, Tail(items)))

\* int(x) of lines 71 and 76
IntOf(x) == IF x.t = "float" THEN Raise("OverflowError") ELSE Ok(PyInt(x.n))

\* lines 70-74 and 75-79
StartTime(min_timestamp) == IF min_timestamp # PyInf THEN IntOf(min_timestamp) ELSE Ok(PyNone)
EndTime(max_timestamp) == IF max_timestamp # PyNegInf THEN IntOf(max_timestamp) ELSE Ok(PyNone)

\* FullThreadText without filter(None, ...)
FullThreadText_unfiltered(thread_content) == Join(<<"\n">>, thread_content)

\* line 64
FullThreadText(thread_content) ==
  Join(<<"\n">>, SelectSeq(thread_content, LAMBDA t : t # EmptyStr))

\* lines 67-81: the document of a row
Doc(full_thread_text, index, start_time, end_time, message_ids) ==
  [content |-> full_thread_text,
   original_df_index |-> index,
   start_time |-> start_time,
   end_time |-> end_time,
   message_ids |-> json_dumps(PyList(message_ids))]

\* one row adds no document / adds doc
Skip == [emit |-> FALSE]
Emit(doc) == [emit |-> TRUE, doc |-> doc]

\* EmitIfText without the test of line 66
EmitIfText_always(full_thread_text, acc, index) ==
  Then(StartTime(acc.min_timestamp), LAMBDA start_time :
    Then(EndTime(acc.max_timestamp), LAMBDA end_time :
      Ok(Emit(Doc(full_thread_text, index, start_time, end_time, acc.message_ids)))))

\* lines 66-82
EmitIfText(full_thread_text, acc, index) ==
  IF full_thread_text = EmptyStr THEN Ok(Skip)
  ELSE Then(StartTime(acc.min_timestamp), LAMBDA start_time :
         Then(EndTime(acc.max_timestamp), LAMBDA end_time :
           Ok(Emit(Doc(full_thread_text, index, start_time, end_time, acc.message_ids)))))

\* lines 64-82
BuildDocument(acc, index) == EmitIfText(FullThreadText(acc.thread_content), acc, index)

\* lines 37-82: the row once its messages are parsed
ProcessMessages(messages, index) ==
  IF ~Truthy(messages) THEN Ok(Skip)
  ELSE Then(Iterate(messages), LAMBDA items :
         Then(MessageLoop(NewThread, items), LAMBDA acc : BuildDocument(acc, index)))

\* lines 36-82: one iteration of the row loop
ProcessRow(index, messages_data) ==
  Then(parse_messages_json(messages_data), LAMBDA messages : ProcessMessages(messages, index))

-----------------------------------------------------------------------------
(* Inputs *)

MaxRows == 3
MaxMsgs == 3
MaxSegs == 2

SeqsUpTo(S, n) == UNION {[1..k -> S] : k \in 0..n}

\* a message object; Absent leaves the field out
Absent == [t |-> "absent"]
Message(text, date_unixtime, id) ==
  LET f == (K_text :> text) @@ (K_date_unixtime :> date_unixtime) @@ (K_id :> id)
  IN PyDict([k \in {x \in DOMAIN f : f[x] # Absent} |-> f[k]])

S_a == <<"a">>
S_blank == <<" ">>
S_b == <<" ", "b", "\n">>
S_Hello == <<"H", "e", "l", "l", "o">>
S_world == <<" ", "w", "o", "r", "l", "d">>
S_quoted == <<"\"", "1">>

\* threads: messages that differ in text, timestamp and id
Timestamps == {Absent, PyInt(0), PyInt(1), PyInt(2)}
Ids == {Absent, PyInt(0), PyInt(12), PyStr(S_quoted)}
ThreadMessages ==
  {Message(PyStr(S_a), ts, Absent) : ts \in Timestamps}
    \cup {Message(PyStr(S_a), Absent, id) : id \in Ids}
    \cup {Message(PyStr(S_a), PyInt(1), PyInt(12)),
          Message(PyStr(S_blank), Absent, Absent),
          Message(PyStr(S_blank), PyInt(1), PyInt(12)),
          Message(PyStr(S_b), PyInt(2), PyStr(S_quoted))}

\* text fields of every shape
Segments ==
  {PyStr(S_Hello), PyStr(S_world), PyStr(EmptyStr), PyInt(7), PyNone,
   PyDict(K_text :> PyStr(S_Hello)), PyDict(<<>>),
   PyDict(K_text :> PyInt(5)), PyDict(K_text :> PyNone)}
Texts ==
  {Absent, PyStr(EmptyStr), PyStr(S_a), PyStr(S_b), PyStr(S_world), PyInt(7), PyInt(-12),
   PyInt(0), PyNone}
    \cup {PyList(segs) : segs \in SeqsUpTo(Segments, MaxSegs)}
TextMessages == {Message(text, Absent, PyInt(1)) : text \in Texts}

\* values of the messages_json column: str cells, list cells and other types
M_a == Message(PyStr(S_a), PyInt(2), PyInt(1))
M_b == Message(PyStr(S_b), PyInt(1), Absent)
M_blank == Message(PyStr(S_blank), PyInt(1), PyInt(1))
InvalidJson == <<"i", "n", "v">>
RowCells ==
  {PyStr(InvalidJson), PyInt(123), PyList(<<M_b>>)}
    \cup {PyStr(json_dumps(v)) :
            v \in {PyList(<<>>), PyInt(5), PyDict(K_id :> PyInt(1)),
                   PyList(<<M_a>>), PyList(<<M_blank>>), PyList(<<M_b, M_a>>)}}
MoreCells ==
  {PyStr(EmptyStr), PyStr(<<"[", "1", ",", "]">>), PyNone, PyList(<<>>)}
    \cup {PyStr(json_dumps(v)) :
            v \in {PyNone, PyInt(0), PyStr(S_a), PyList(<<PyInt(5)>>),
                   PyList(<<M_a, PyInt(5)>>), PyDict(<<>>)}}

\* df.index: the default RangeIndex, or labels that are not the positions
RangeIndex(n) == [k \in 1..n |-> k - 1]
Descending(n) == [k \in 1..n |-> n - k]
Shifted(n) == [k \in 1..n |-> k + n]
Indexes(n) == {RangeIndex(n), Descending(n), Shifted(n)}

DataFrame(index, column, cells) == [index |-> index, data |-> (column :> cells)]

\* frames of up to MaxRows rows with the messages_json column
IsRowFrame(frame) ==
  \E n \in 0..MaxRows : \E index \in Indexes(n), cells \in [1..n -> RowCells] :
    frame = DataFrame(index, "messages_json", cells)

\* frames with another column in its place
IsOtherFrame(frame) ==
  \E n \in 0..MaxRows : \E cells \in [1..n -> {PyStr(InvalidJson), PyList(<<M_a>>)}] :
    frame = DataFrame(RangeIndex(n), "other_col", cells)

\* frames of one row
IsCellFrame(frame) ==
  \E cell \in MoreCells : frame = DataFrame(RangeIndex(1), "messages_json", <<cell>>)

\* frames of one row that holds a thread of up to MaxMsgs messages
IsThreadFrame(frame) ==
  \E k \in 0..MaxMsgs : \E items \in [1..k -> ThreadMessages] :
    frame = DataFrame(RangeIndex(1), "messages_json", <<PyList(items)>>)

\* frames of one row that holds one message, its text of any shape
IsTextFrame(frame) ==
  \E m \in TextMessages : frame = DataFrame(Shifted(1), "messages_json", <<PyList(<<m>>)>>)

\* frames whose rows hold threads with, without and with only a zero timestamp
M_plain == Message(PyStr(S_a), Absent, Absent)
M_zero == Message(PyStr(S_b), PyInt(0), Absent)
SpanCells == {PyList(<<M_plain>>), PyList(<<M_zero>>), PyList(<<M_b, M_a>>)}
IsSpanFrame(frame) ==
  \E n \in 2..MaxRows : \E cells \in [1..n -> SpanCells] :
    frame = DataFrame(Shifted(n), "messages_json", cells)

IsDataFrame(frame) ==
  \/ IsSpanFrame(frame)
  \/ IsRowFrame(frame)
  \/ IsOtherFrame(frame)
  \/ IsCellFrame(frame)
  \/ IsThreadFrame(frame)
  \/ IsTextFrame(frame)

\* values handed to parse_messages_json
IsMessagesData(data) ==
  \/ data \in RowCells \cup MoreCells
  \/ \E k \in 0..MaxMsgs : \E items \in [1..k -> ThreadMessages] : data = PyList(items)
  \/ \E m \in TextMessages : data = PyList(<<m>>)

MessageObjects == ThreadMessages \cup TextMessages \cup {M_a, M_b, M_blank}

-----------------------------------------------------------------------------
(* prepare_documents_from_df(df), one action per step of the call *)

Columns(frame) == DOMAIN frame.data

\* no handle, no cached client, no call made
NoService ==
  /\ weaviate_client = PyNone
  /\ _client = PyNone
  /\ ext = PyNone
  /\ calls = <<>>

Init ==
  /\ IsDataFrame(df)
  /\ pc = "start"
  /\ pos = 0
  /\ documents = <<>>
  /\ exc = "none"
  /\ arg = PyNone
  /\ ret = PyNone
  /\ NoService

\* CheckColumns without the test of line 32: the first row["messages_json"] raises
\* KeyError, and a frame without rows is returned as no documents
CheckColumns_unchecked ==
  /\ pc = "start"
  /\ documents' = <<>>
  /\ IF "messages_json" \notin Columns(df) /\ Len(df.index) > 0
       THEN pc' = "raised" /\ exc' = "KeyError"
       ELSE pc' = "loop" /\ exc' = exc
  /\ UNCHANGED <<df, pos, arg, ret, svc>>

\* lines 31-33: the column check made once before the row loop
CheckColumns ==
  /\ pc = "start"
  /\ documents' = <<>>
  /\ IF "messages_json" \notin Columns(df)
       THEN pc' = "raised" /\ exc' = "ValueError"
       ELSE pc' = "loop" /\ exc' = exc
  /\ UNCHANGED <<df, pos, arg, ret, svc>>

\* RowDone that puts the new document in front
RowDone_prepend(r) ==
  IF ~r.ok
    THEN pc' = "raised" /\ exc' = r.exc /\ documents' = documents
    ELSE /\ pc' = pc
         /\ exc' = exc
         /\ documents' = IF r.val.emit THEN <<r.val.doc>> \o documents ELSE documents

\* the row loop after one iteration: the exception leaves the call, or line 82
RowDone(r) ==
  IF ~r.ok
    THEN pc' = "raised" /\ exc' = r.exc /\ documents' = documents
    ELSE /\ pc' = pc
         /\ exc' = exc
         /\ documents' = IF r.val.emit THEN Append(documents, r.val.doc) ELSE documents

\* IterRow storing the number of documents emitted so far in place of the row's index
IterRow_counter ==
  /\ pc = "loop"
  /\ pos < Len(df.index)
  /\ RowDone(ProcessRow(Len(documents), df.data["messages_json"][pos + 1]))
  /\ pos' = pos + 1
  /\ UNCHANGED <<df, arg, ret, svc>>

\* lines 35-82: the next row of df.iterrows(); pos counts the rows consumed
IterRow ==
  /\ pc = "loop"
  /\ pos < Len(df.index)
  /\ RowDone(ProcessRow(df.index[pos + 1], df.data["messages_json"][pos + 1]))
  /\ pos' = pos + 1
  /\ UNCHANGED <<df, arg, ret, svc>>

\* line 83
Return ==
  /\ pc = "loop"
  /\ pos = Len(df.index)
  /\ pc' = "returned"
  /\ ret' = documents
  /\ UNCHANGED <<df, pos, documents, exc, arg, svc>>

Next == CheckColumns \/ IterRow \/ Return

Spec == Init /\ [][Next]_vars

-----------------------------------------------------------------------------
(* parse_messages_json and the text normalisation called on their own *)

NoFrame == DataFrame(<<>>, "messages_json", <<>>)

InitParse ==
  /\ IsMessagesData(arg)
  /\ pc = "parse_call"
  /\ ret = PyNone
  /\ df = NoFrame /\ pos = 0 /\ documents = <<>> /\ exc = "none"
  /\ NoService

ParseCall ==
  /\ pc = "parse_call"
  /\ ret' = parse_messages_json(arg)
  /\ pc' = "parse_done"
  /\ UNCHANGED <<df, pos, documents, exc, arg, svc>>

SpecParse == InitParse /\ [][ParseCall]_vars

InitText ==
  /\ arg \in MessageObjects
  /\ pc = "text_call"
  /\ ret = PyNone
  /\ df = NoFrame /\ pos = 0 /\ documents = <<>> /\ exc = "none"
  /\ NoService

TextCall ==
  /\ pc = "text_call"
  /\ ret' = message_text(arg)
  /\ pc' = "text_done"
  /\ UNCHANGED <<df, pos, documents, exc, arg, svc>>

SpecText == InitText /\ [][TextCall]_vars

-----------------------------------------------------------------------------
(* app/utils/openai_utils.py.  In the service layer a str is a sequence of *)
(* pieces: single characters, and message literals kept whole.             *)

\* text.replace("\n", " ")
ReplaceNewlines(text) == [k \in 1..Len(text) |-> IF text[k] = "\n" THEN " " ELSE text[k]]

\* the vector the provider computes for an input
Embedding(input) == [t |-> "vector", input |-> input]

\* lines 33-34: client.embeddings.create(...).data[0].embedding; the provider
\* fails on the inputs of no_embedding
EmbeddingsCreate(input, no_embedding) ==
  IF input \in no_embedding THEN Raise("APIError") ELSE Ok(Embedding(input))

\* lines 20-34
get_embedding(text, no_embedding) == EmbeddingsCreate(ReplaceNewlines(text), no_embedding)

Apology == <<"Sorry, I encountered an error while generating a response.">>
NoResponse == <<"No response received.">>

\* lines 72-73
CompletionText(content) ==
  IF Truthy(content) THEN PyStr(Strip(content.s)) ELSE PyStr(NoResponse)

\* lines 64-73: the body of the try; completion is what
\* client.chat.completions.create does, the message content or an exception
ChatTry(completion) == Then(completion, LAMBDA content : Ok(CompletionText(content)))

\* ApologyOnException letting the exception through
ApologyOnException_reraise(r) == r

\* lines 74-76: except Exception
ApologyOnException(r) == IF r.ok THEN r ELSE Ok(PyStr(Apology))

\* lines 37-76; the messages built from prompt and context at lines 41-61 go to
\* the provider only
get_chat_completion(prompt, context, completion) == ApologyOnException(ChatTry(completion))

-----------------------------------------------------------------------------
(* app/utils/weaviate_utils.py.  What the vector store and the providers   *)
(* do during a call is a record e:                                         *)
(*   schema_get    "found", "404", "500" or "unreachable"                  *)
(*   create_class, flush, delete_class   "ok" or "raises"                  *)
(*   exists        "yes", "no" or "raises"                                 *)
(*   no_embedding  the inputs on which the embedding call fails            *)
(*   no_add        the contents on which batch.add_data_object raises      *)
(*   query         how the near-vector query ends, nearest its ranked hits *)
(*   completion    the completion's message content, or an exception       *)

WEAVIATE_CLASS_NAME == "ChatThread"

\* line 23: the client weaviate.Client(WEAVIATE_URL) constructs at an attempt
NewClient(id, attempt) == [t |-> "client", id |-> id, is_ready |-> attempt]

\* a call's result and the cached client it leaves
Cached(cache, r) == [cache |-> cache, r |-> r]

\* lines 23-26: attempt is what the store does when connected to
Connect(id, attempt) ==
  CASE attempt = "refused" -> Cached(PyNone, Raise("WeaviateStartUpError"))
    [] attempt = "not_ready" -> Cached(NewClient(id, attempt), Raise("ConnectionError"))
    [] attempt = "probe_raises" -> Cached(NewClient(id, attempt), Raise("RequestException"))
    [] attempt = "ready" -> Cached(NewClient(id, attempt), Ok(NewClient(id, attempt)))

\* ResetOnFailure without line 29
ResetOnFailure_kept(c) == c

\* lines 27-30: except Exception, reset and re-raise
ResetOnFailure(c) == IF c.r.ok THEN c ELSE Cached(PyNone, c.r)

\* lines 19-31: get_weaviate_client() with cache the value of _client
get_weaviate_client(cache, id, attempt) ==
  IF cache = PyNone THEN ResetOnFailure(Connect(id, attempt)) ELSE Cached(cache, Ok(cache))

\* lines 34-85
create_schema_if_not_exists(e) ==
  CASE e.schema_get = "found" -> Ok(PyNone)
    [] e.schema_get = "404" ->
         IF e.create_class = "ok" THEN Ok(PyNone) ELSE Raise("UnexpectedStatusCodeException")
    [] e.schema_get = "500" -> Raise("UnexpectedStatusCodeException")
    [] e.schema_get = "unreachable" -> Raise("ConnectionError")

\* lines 92-97: the body of the try
ClearTry(e) ==
  CASE e.exists = "raises" -> Raise("ConnectionError")
    [] e.exists = "no" -> Ok(PyNone)
    [] e.exists = "yes" ->
         IF e.delete_class = "ok" THEN Ok(PyNone) ELSE Raise("UnexpectedStatusCodeException")

\* lines 98-99: except Exception, print
PrintOnException(r) == IF r.ok THEN r ELSE Ok(PyNone)

\* lines 88-99
clear_all_data(e) == PrintOnException(ClearTry(e))

\* line 109: doc_properties.get("content")
HasContent(doc_properties) == "content" \in DOMAIN doc_properties /\ doc_properties.content # <<>>

\* lines 117-121: the object batch.add_data_object is called with
DataObject(doc_properties, embedding) ==
  [data_object |-> doc_properties, class_name |-> WEAVIATE_CLASS_NAME, vector |-> embedding]

\* the texts handed to get_embedding and the objects added to the batch so far
Batch(embedded, added) == [embedded |-> embedded, added |-> added]

\* how one iteration of the loop ends, and the batch after it
Iterated(r, batch) == [r |-> r, batch |-> batch]

\* lines 113-121: the try of one iteration. The embedding is asked for; when it
\* is computed add_data_object is called, and raises for the contents of no_add
AddTry(batch, doc_properties, embedding, no_add) ==
  IF ~embedding.ok
    THEN Iterated(embedding, Batch(Append(batch.embedded, doc_properties.content), batch.added))
    ELSE Iterated(IF doc_properties.content \in no_add
                    THEN Raise("UnexpectedStatusCodeException") ELSE Ok(PyNone),
                  Batch(Append(batch.embedded, doc_properties.content),
                        Append(batch.added, DataObject(doc_properties, embedding.val))))

\* PrintOnError with the exception of a document raised again
PrintOnError_reraise(x) == x

\* lines 127-131: except Exception, print; the loop goes on
PrintOnError(x) == Iterated(Ok(PyNone), x.batch)

\* lines 113-131: the try of one iteration, its exception printed
AddIfEmbedded(batch, doc_properties, embedding, no_add) ==
  PrintOnError(AddTry(batch, doc_properties, embedding, no_add))

\* IndexOne without the test of line 109
IndexOne_unskipped(batch, doc_properties, e) ==
  AddIfEmbedded(batch, [content |-> <<>>] @@ doc_properties,
                get_embedding(([content |-> <<>>] @@ doc_properties).content, e.no_embedding),
                e.no_add)

\* lines 109-131: one iteration of the loop
IndexOne(batch, doc_properties, e) ==
  IF ~HasContent(doc_properties) THEN Iterated(Ok(PyNone), batch)
  ELSE AddIfEmbedded(batch, doc_properties,
                     get_embedding(doc_properties.content, e.no_embedding), e.no_add)

\* lines 108-131: the loop ends with the documents, or with an exception that
\* leaves an iteration
RECURSIVE IndexLoop(_, _, _)
IndexNext(x, docs, e) == IF x.r.ok THEN IndexLoop(x.batch, docs, e) ELSE x
IndexLoop(batch, docs, e) ==
  IF docs = <<>> THEN Iterated(Ok(PyNone), batch)
  ELSE IndexNext(IndexOne(batch, Head(docs), e), Tail(docs), e)

\* line 106: leaving the with block sends what the batch holds
Flush(e) == IF e.flush = "ok" THEN Ok(PyNone) ELSE Raise("ConnectionError")

\* how index_documents ends, and the batch it filled
Indexed(r, batch) == [r |-> r, embedded |-> batch.embedded, added |-> batch.added]

\* lines 106-131: the with block
WithBatch(x, e) == Indexed(IF x.r.ok THEN Flush(e) ELSE x.r, x.batch)

\* lines 102-144
index_documents(docs, e) ==
  IF ~create_schema_if_not_exists(e).ok
    THEN Indexed(create_schema_if_not_exists(e), Batch(<<>>, <<>>))
    ELSE WithBatch(IndexLoop(Batch(<<>>, <<>>), docs, e), e)

\* .with_limit(top_k)
Limit(hits, top_k) == SubSeq(hits, 1, IF top_k < Len(hits) THEN top_k ELSE Len(hits))

\* the response of a query that finds hits
GetResponse(hits) ==
  PyDict("data" :> PyDict("Get" :> PyDict(WEAVIATE_CLASS_NAME :> PyList(hits))))

\* lines 164-169: client.query.get(...).with_near_vector(...).with_limit(top_k).do()
Query(e, top_k) ==
  CASE e.query = "get_raises" -> Raise("Exception")
    [] e.query = "do_raises" -> Raise("ConnectionError")
    [] e.query = "hits" -> Ok(GetResponse(Limit(e.nearest, top_k)))
    [] e.query = "errors" -> Ok(PyDict("errors" :> PyList(<<>>)))
    [] e.query = "no_get" -> Ok(PyDict("data" :> PyDict(<<>>)))
    [] e.query = "no_class" -> Ok(PyDict("data" :> PyDict("Get" :> PyDict(<<>>))))
    [] e.query = "data_null" -> Ok(PyDict("data" :> PyNone))

\* d.get(key, default), d any value
GetOf(d, key, default) ==
  IF d.t = "dict" THEN Ok(DictGet(d, key, default)) ELSE Raise("AttributeError")

\* lines 172-174
Hits(result) ==
  Then(GetOf(result, "data", PyDict(<<>>)), LAMBDA data :
    Then(GetOf(data, "Get", PyDict(<<>>)), LAMBDA get :
      GetOf(get, WEAVIATE_CLASS_NAME, PyList(<<>>))))

\* EmptyOnException letting the exception through
EmptyOnException_reraise(r) == r

\* lines 176-178: except Exception, return []
EmptyOnException(r) == IF r.ok THEN r ELSE Ok(PyList(<<>>))

\* lines 147-178
search_weaviate(query_text, top_k, e) ==
  Then(get_embedding(query_text, e.no_embedding), LAMBDA query_embedding :
    EmptyOnException(Then(Query(e, top_k), LAMBDA result : Hits(result))))

-----------------------------------------------------------------------------
(* app/main.py: the handlers.  A handler ends by returning a body, by      *)
(* raising an HTTPException or by raising another exception; calls lists   *)
(* the calls it made on the way.                                           *)

Call(fn, args, result) == [fn |-> fn, args |-> args, result |-> result]

Returns(body, called) == [kind |-> "return", status |-> 200, body |-> body, calls |-> called]
HTTPException(status_code, detail, called) ==
  [kind |-> "http", status |-> status_code, body |-> [detail |-> detail], calls |-> called]
Exception(e, called) == [kind |-> "error", exc |-> e, calls |-> called]

\* lines 101-105, 173-177, 226-230
Unavailable == HTTPException(503, <<"Weaviate client not available. Check server logs.">>, <<>>)

\* prepare_documents_from_df(df) as one call: data_processor.py lines 35-83
RECURSIVE RowLoop(_, _, _)
RowLoop(frame, p, docs) ==
  IF p > Len(frame.index) THEN Ok(docs)
  ELSE Then(ProcessRow(frame.index[p], frame.data["messages_json"][p]), LAMBDA row :
         RowLoop(frame, p + 1, IF row.emit THEN Append(docs, row.doc) ELSE docs))

\* data_processor.py lines 24-83
prepare_documents_from_df(frame) ==
  IF "messages_json" \notin Columns(frame) THEN Raise("ValueError") ELSE RowLoop(frame, 1, <<>>)

\* str.endswith(suffix)
EndsWith(s, suffix) ==
  Len(suffix) <= Len(s) /\ SubSeq(s, Len(s) - Len(suffix) + 1, Len(s)) = suffix

Csv == <<".", "c", "s", "v">>
Parquet == <<".", "p", "a", "r", "q", "u", "e", "t">>

\* lines 147-150
IndexedMessage(docs) ==
  <<"Successfully processed and initiated indexing for ">> \o IntToStr(Len(docs))
    \o <<" documents.">>

\* lines 146-150
IndexAndReport(docs, indexed, called) ==
  IF indexed.r.ok
    THEN Returns([message |-> IndexedMessage(docs)],
                 Append(called, Call("index_documents", docs, indexed)))
    ELSE Exception(indexed.r.exc, Append(called, Call("index_documents", docs, indexed)))

\* lines 138-150
PrepareAndIndex(frame, prepared, e, called) ==
  IF ~prepared.ok
    THEN Exception(prepared.exc, Append(called, Call("prepare_documents_from_df", frame, prepared)))
  ELSE IF prepared.val = <<>>
    THEN Returns([message |-> <<"No processable documents found in the uploaded file.">>],
                 Append(called, Call("prepare_documents_from_df", frame, prepared)))
  ELSE IndexAndReport(prepared.val, index_documents(prepared.val, e),
                      Append(called, Call("prepare_documents_from_df", frame, prepared)))

\* lines 127-150: the table is read
IndexTable(frame, e, called) ==
  IF "messages_json" \notin Columns(frame)
    THEN HTTPException(400, <<"DataFrame must contain 'messages_json' column.">>, called)
    ELSE PrepareAndIndex(frame, prepare_documents_from_df(frame), e, called)

\* lines 118, 120: pd.read_csv / pd.read_parquet; file.table is what the
\* reader makes of the contents, a table or an exception
ReadTable(reader, file, e) ==
  IF file.table.ok
    THEN IndexTable(file.table.val, e, <<Call(reader, file.filename, file.table)>>)
    ELSE Exception(file.table.exc, <<Call(reader, file.filename, file.table)>>)

\* lines 108-150: the body of the try
IndexTry(file, e) ==
  IF ~Truthy(file.filename) THEN HTTPException(400, <<"File must have a filename.">>, <<>>)
  ELSE IF EndsWith(file.filename.s, Csv) THEN ReadTable("read_csv", file, e)
  ELSE IF EndsWith(file.filename.s, Parquet) THEN ReadTable("read_parquet", file, e)
  ELSE HTTPException(400, <<"Invalid file type. Please upload CSV or Parquet.">>, <<>>)

\* IndexExcept without lines 151-152
IndexExcept_all(x) ==
  IF x.kind = "error" THEN HTTPException(500, <<"Error processing file: ", x.exc>>, x.calls)
  ELSE IF x.kind = "http" THEN HTTPException(500, <<"Error processing file: ", "HTTPException">>, x.calls)
  ELSE x

\* lines 151-157: HTTPException re-raised, any other exception made a 500
IndexExcept(x) ==
  IF x.kind = "error" THEN HTTPException(500, <<"Error processing file: ", x.exc>>, x.calls)
  ELSE x

\* index_data_endpoint without lines 101-105
index_data_endpoint_unguarded(handle, file, e) == IndexExcept(IndexTry(file, e))

\* lines 98-157
index_data_endpoint(handle, file, e) ==
  IF ~Truthy(handle) THEN Unavailable ELSE IndexExcept(IndexTry(file, e))

\* line 194: the separator of the context
Separator == <<"\n", "\n", "-", "-", "-", "\n", "\n">>

\* doc["content"][:200] + "..."
PreviewLen == 200
Preview(content) ==
  SubSeq(content, 1, IF Len(content) < PreviewLen THEN Len(content) ELSE PreviewLen)
    \o <<".", ".", ".">>

NotAvailable == PyStr(<<"N/A">>)

\* lines 202-208
SimplifiedContext(doc) ==
  [content_preview |-> Preview(doc.d["content"].s),
   original_df_index |-> DictGet(doc, "original_df_index", NotAvailable),
   distance |-> DictGet(DictGet(doc, "_additional", PyDict(<<>>)), "distance", NotAvailable)]

\* lines 194-196
ContextStr(retrieved_docs) ==
  Join(Separator, [k \in 1..Len(retrieved_docs) |-> retrieved_docs[k].d["content"].s])

\* lines 165-167
QueryResponse(answer, retrieved_contexts) ==
  [answer |-> answer, retrieved_contexts |-> retrieved_contexts]

\* lines 187-192: nothing retrieved
AnswerWithoutContext(request, answer, called) ==
  IF ~answer.ok
    THEN Exception(answer.exc,
                   Append(called, Call("get_chat_completion",
                                       [prompt |-> request.query, context |-> PyNone], answer)))
    ELSE Returns(QueryResponse(<<"No relevant context found. General knowledge answer: ">>
                                 \o answer.val.s,
                               <<>>),
                 Append(called, Call("get_chat_completion",
                                     [prompt |-> request.query, context |-> PyNone], answer)))

\* lines 211-215
AnswerWithContext(request, retrieved_docs, context_str, answer, called) ==
  IF ~answer.ok
    THEN Exception(answer.exc,
                   Append(called, Call("get_chat_completion",
                                       [prompt |-> request.query, context |-> PyStr(context_str)],
                                       answer)))
    ELSE Returns(QueryResponse(answer.val.s,
                               [k \in 1..Len(retrieved_docs) |->
                                  SimplifiedContext(retrieved_docs[k])]),
                 Append(called, Call("get_chat_completion",
                                     [prompt |-> request.query, context |-> PyStr(context_str)],
                                     answer)))

\* AnswerFrom taking the no-context branch whatever was retrieved
AnswerFrom_never(request, retrieved_docs, e, called) ==
  AnswerWithoutContext(request, get_chat_completion(request.query, PyNone, e.completion), called)

\* lines 184-215: the answer from what was retrieved
AnswerFrom(request, retrieved_docs, e, called) ==
  IF ~Truthy(retrieved_docs)
    THEN AnswerWithoutContext(request, get_chat_completion(request.query, PyNone, e.completion),
                              called)
    ELSE AnswerWithContext(request, retrieved_docs.items, ContextStr(retrieved_docs.items),
                           get_chat_completion(request.query,
                                               PyStr(ContextStr(retrieved_docs.items)),
                                               e.completion),
                           called)

\* lines 180-215: the body of the try
QueryTry(request, retrieved, e) ==
  IF ~retrieved.ok
    THEN Exception(retrieved.exc, <<Call("search_weaviate", request, retrieved)>>)
    ELSE AnswerFrom(request, retrieved.val, e, <<Call("search_weaviate", request, retrieved)>>)

\* lines 216-220
QueryExcept(x) ==
  IF x.kind = "return" THEN x
  ELSE HTTPException(500, <<"Error processing query: ", x.exc>>, x.calls)

\* lines 170-220
query_endpoint(handle, request, e) ==
  IF ~Truthy(handle) THEN Unavailable
  ELSE QueryExcept(QueryTry(request, search_weaviate(request.query, request.top_k, e), e))

\* lines 231-236: the body of the try
ClearTryEndpoint(cleared) ==
  IF cleared.ok
    THEN Returns([message |-> <<"Successfully cleared all data from Weaviate class '",
                               WEAVIATE_CLASS_NAME, "'.">>],
                 <<Call("clear_all_data", WEAVIATE_CLASS_NAME, cleared)>>)
    ELSE Exception(cleared.exc, <<Call("clear_all_data", WEAVIATE_CLASS_NAME, cleared)>>)

\* lines 237-241
ClearExcept(x) ==
  IF x.kind = "return" THEN x
  ELSE HTTPException(500, <<"Error clearing index: ", x.exc>>, x.calls)

\* lines 223-241
clear_index_endpoint(handle, e) ==
  IF ~Truthy(handle) THEN Unavailable ELSE ClearExcept(ClearTryEndpoint(clear_all_data(e)))

\* lines 92-95
root == Returns([message |-> <<"API is running">>, docs |-> <<"/docs">>], <<>>)

\* lines 72-82: probe is the status code the readiness probe answers, or
\* "raises" when the request fails
HealthStatus(probe) ==
  IF probe = "raises"
    THEN [status |-> "degraded", services |-> [weaviate |-> "unhealthy"]]
    ELSE [status |-> "healthy",
          services |-> [weaviate |-> IF probe = "200" THEN "healthy" ELSE "unhealthy"]]

\* lines 86-89
HealthResponse(health_status) ==
  [kind |-> "return",
   status |-> IF health_status.status \in {"healthy", "degraded"} THEN 200 ELSE 503,
   body |-> health_status,
   calls |-> <<>>]

\* lines 65-89
health_check(probe) == HealthResponse(HealthStatus(probe))

\* app/api/v1/endpoints/ping.py lines 6-8
read_ping == Returns([ping |-> "pong"], <<>>)

\* app/api/v1/endpoints/ping.py line 6: the route of the ping router
router == {<<"GET", "/ping">>}

\* the routes of app: the handlers registered at lines 65, 92, 98, 170 and 223;
\* main.py has no include_router call
app ==
  {<<"GET", "/health">>, <<"GET", "/">>, <<"POST", "/index-data/">>, <<"POST", "/query/">>,
   <<"POST", "/clear-index/">>}

\* the answer to a request that matches no route of app
NotFound == HTTPException(404, <<"Not Found">>, <<>>)

-----------------------------------------------------------------------------
(* app/main.py: the application, one action per handler *)

MaxUploadRows == 2
MaxHits == 2
MaxTopK == 2

Attempts == {"refused", "not_ready", "probe_raises", "ready"}

\* the external services all answering, nothing stored
Calm ==
  [schema_get |-> "found", create_class |-> "ok", flush |-> "ok", delete_class |-> "ok",
   exists |-> "yes", no_embedding |-> {}, no_add |-> {}, query |-> "hits", nearest |-> <<>>,
   completion |-> Ok(PyStr(<<"o", "k">>))]

\* uploads: file names of every kind, and what the reader makes of the contents
F_csv == <<"t">> \o Csv
F_parquet == <<"t">> \o Parquet
F_txt == <<"t", ".", "t", "x", "t">>
F_upper == <<"t", ".", "C", "S", "V">>
F_bare == <<"c", "s", "v">>
F_csv_txt == Csv \o <<".", "t", "x", "t">>
Filenames ==
  {PyNone, PyStr(EmptyStr), PyStr(F_csv), PyStr(F_parquet), PyStr(F_txt), PyStr(F_upper),
   PyStr(F_bare), PyStr(F_csv_txt)}
UploadCells ==
  {PyStr(InvalidJson)}
    \cup {PyStr(json_dumps(v)) :
            v \in {PyInt(5), PyList(<<M_a>>), PyList(<<M_b>>), PyList(<<M_blank>>)}}

UploadFile(filename, table) == [filename |-> filename, table |-> table]

Tables ==
  {Raise("ParserError")}
    \cup UNION {{Ok(DataFrame(RangeIndex(n), "messages_json", cells)) :
                   cells \in [1..n -> UploadCells]} : n \in 0..MaxUploadRows}
    \cup UNION {{Ok(DataFrame(RangeIndex(n), "other_col", cells)) :
                   cells \in [1..n -> UploadCells]} : n \in 0..1}

\* what the services do while a file is indexed
IndexExts ==
  {[Calm EXCEPT !.schema_get = s, !.create_class = c, !.flush = f, !.no_embedding = n,
                !.no_add = a] :
     s \in {"found", "404", "500", "unreachable"}, c \in {"ok", "raises"},
     f \in {"ok", "raises"}, n \in {{}, {S_a}}, a \in {{}, {<<"b">>}, {S_a, <<"b">>}}}

\* queries, and the hits the store holds
Q_short == <<"q">>
Q_lines == <<"w", "h", "y", "\n", "?">>
H_first ==
  PyDict(("content" :> PyStr(<<"f", "i", "r", "s", "t">>)) @@ ("original_df_index" :> PyInt(0))
           @@ ("_additional" :> PyDict("distance" :> PyInt(1))))
H_bare == PyDict("content" :> PyStr(S_b))
H_empty == PyDict(("content" :> PyStr(EmptyStr)) @@ ("_additional" :> PyDict(<<>>)))
HitObjects == {H_first, H_bare, H_empty}

QueryRequest(query, top_k) == [query |-> query, top_k |-> top_k]

Completions ==
  {Raise("APIError"), Raise("IndexError"), Ok(PyNone), Ok(PyStr(EmptyStr)),
   Ok(PyStr(<<" ", "T", "b", "i", "l", "i", "s", "i", "\n">>))}

QueryOutcomes == {"get_raises", "do_raises", "hits", "errors", "no_get", "no_class", "data_null"}

QueryExts ==
  {[Calm EXCEPT !.nearest = nearest, !.query = q, !.completion = c, !.no_embedding = n] :
     nearest \in SeqsUpTo(HitObjects, MaxHits), q \in QueryOutcomes, c \in Completions,
     n \in {{}, {Q_short}}}

ClearExts ==
  {[Calm EXCEPT !.exists = x, !.delete_class = d] :
     x \in {"yes", "no", "raises"}, d \in {"ok", "raises"}}

\* requests for paths the application may not have
OtherRequests ==
  {[method |-> "GET", path |-> "/api/v1/ping"], [method |-> "GET", path |-> "/ping"],
   [method |-> "POST", path |-> "/api/v1/ping"]}

Paths(routes) == {route[2] : route \in routes}

InitApp ==
  /\ NoService
  /\ pc = "startup"
  /\ arg = PyNone
  /\ ret = PyNone
  /\ df = NoFrame /\ pos = 0 /\ documents = <<>> /\ exc = "none"

\* lines 31-37: the handle is assigned when get_weaviate_client returns
Started(attempt, c) ==
  /\ _client' = c.cache
  /\ weaviate_client' = IF c.r.ok THEN c.r.val ELSE weaviate_client
  /\ calls' = <<Call("get_weaviate_client", attempt, c.r)>>

\* lines 27-39: lifespan up to the yield
Lifespan ==
  /\ pc = "startup"
  /\ \E attempt \in Attempts : Started(attempt, get_weaviate_client(_client, 1, attempt))
  /\ pc' = "serving"
  /\ UNCHANGED <<df, pos, documents, exc, arg, ret, ext>>

\* Served with a handler that connects again when the handle is unset
Served_reconnecting(request, e, x) ==
  /\ arg' = request
  /\ ext' = e
  /\ ret' = [status |-> x.status, body |-> x.body]
  /\ calls' = x.calls
  /\ pc' = "served"
  /\ weaviate_client' = IF weaviate_client = PyNone
                           THEN get_weaviate_client(_client, 2, "ready").r.val
                           ELSE weaviate_client
  /\ UNCHANGED <<df, pos, documents, exc, _client>>

\* a request answered: x is how its handler ended
Served(request, e, x) ==
  /\ arg' = request
  /\ ext' = e
  /\ ret' = [status |-> x.status, body |-> x.body]
  /\ calls' = x.calls
  /\ pc' = "served"
  /\ UNCHANGED <<df, pos, documents, exc, weaviate_client, _client>>

\* the application waits for the next request
Await ==
  /\ pc = "served"
  /\ pc' = "serving"
  /\ arg' = PyNone
  /\ ret' = PyNone
  /\ ext' = PyNone
  /\ calls' = <<>>
  /\ UNCHANGED <<df, pos, documents, exc, weaviate_client, _client>>

\* POST /index-data/
IndexData ==
  /\ pc = "serving"
  /\ \E filename \in Filenames, table \in Tables, e \in IndexExts :
       Served([method |-> "POST", path |-> "/index-data/", file |-> UploadFile(filename, table)],
              e, index_data_endpoint(weaviate_client, UploadFile(filename, table), e))

\* POST /query/
QueryData ==
  /\ pc = "serving"
  /\ \E query \in {Q_short, Q_lines}, top_k \in 1..MaxTopK, e \in QueryExts :
       Served([method |-> "POST", path |-> "/query/", body |-> QueryRequest(query, top_k)],
              e, query_endpoint(weaviate_client, QueryRequest(query, top_k), e))

\* POST /clear-index/
ClearIndex ==
  /\ pc = "serving"
  /\ \E e \in ClearExts :
       Served([method |-> "POST", path |-> "/clear-index/"], e,
              clear_index_endpoint(weaviate_client, e))

\* GET /health
Health ==
  /\ pc = "serving"
  /\ \E probe \in {"200", "503", "raises"} :
       Served([method |-> "GET", path |-> "/health"], [probe |-> probe], health_check(probe))

\* GET /
Root ==
  /\ pc = "serving"
  /\ Served([method |-> "GET", path |-> "/"], PyNone, root)

\* a request for a path that app has no route for
NoRoute ==
  /\ pc = "serving"
  /\ \E request \in OtherRequests :
       /\ request.path \notin Paths(app)
       /\ Served(request, PyNone, NotFound)

NextApp ==
  Lifespan \/ IndexData \/ QueryData \/ ClearIndex \/ Health \/ Root \/ NoRoute \/ Await

SpecApp == InitApp /\ [][NextApp]_vars

-----------------------------------------------------------------------------
(* get_weaviate_client() called again and again; calls lists the clients   *)
(* constructed, each with what the store did at that attempt               *)

MaxAttempts == 4

InitClient ==
  /\ NoService
  /\ pc = "client"
  /\ arg = PyNone
  /\ ret = PyNone
  /\ df = NoFrame /\ pos = 0 /\ documents = <<>> /\ exc = "none"

\* the call made: c is its result and the cache it leaves
Got(attempt, c) ==
  /\ _client' = c.cache
  /\ ret' = c.r
  /\ calls' = IF _client = PyNone
                THEN Append(calls, Call("weaviate.Client", attempt, c.r))
                ELSE calls
  /\ UNCHANGED <<df, pc, pos, documents, exc, arg, weaviate_client, ext>>

\* weaviate_utils.py lines 19-31: one call
GetClient ==
  /\ pc = "client"
  /\ \E attempt \in Attempts :
       /\ _client = PyNone => Len(calls) < MaxAttempts
       /\ Got(attempt, get_weaviate_client(_client, Len(calls) + 1, attempt))

SpecClient == InitClient /\ [][GetClient]_vars

-----------------------------------------------------------------------------
(* index_documents and search_weaviate called on their own *)

MaxDocs == 3

\* documents with content, with empty content and without the field
S_lines == <<"b", "\n", "c">>
D_a == [content |-> S_a, original_df_index |-> 0]
D_twin == [content |-> S_a, original_df_index |-> 2]
D_lines == [content |-> S_lines, original_df_index |-> 1, message_ids |-> <<"[", "]">>]
D_empty == [content |-> EmptyStr, original_df_index |-> 3]
D_missing == [original_df_index |-> 4]
IndexDocs == {D_a, D_twin, D_lines, D_empty, D_missing}

IndexDocExts ==
  {[Calm EXCEPT !.schema_get = s, !.create_class = c, !.flush = f, !.no_embedding = n,
                !.no_add = a] :
     s \in {"found", "404", "500", "unreachable"}, c \in {"ok", "raises"},
     f \in {"ok", "raises"}, n \in {{}, {S_a}, {ReplaceNewlines(S_lines)}},
     a \in {{}, {S_lines}}}

InitIndex ==
  /\ arg \in SeqsUpTo(IndexDocs, MaxDocs)
  /\ pc = "index_call"
  /\ ret = PyNone
  /\ df = NoFrame /\ pos = 0 /\ documents = <<>> /\ exc = "none"
  /\ weaviate_client = PyNone /\ _client = PyNone /\ calls = <<>>
  /\ ext \in IndexDocExts

IndexCall ==
  /\ pc = "index_call"
  /\ ret' = index_documents(arg, ext)
  /\ pc' = "index_done"
  /\ UNCHANGED <<df, pos, documents, exc, arg, svc>>

SpecIndex == InitIndex /\ [][IndexCall]_vars

SearchExts ==
  {[Calm EXCEPT !.nearest = nearest, !.query = q, !.no_embedding = n] :
     nearest \in SeqsUpTo(HitObjects, MaxHits), q \in QueryOutcomes, n \in {{}, {Q_short}}}

InitSearch ==
  /\ \E query \in {Q_short, Q_lines}, top_k \in 1..MaxTopK : arg = QueryRequest(query, top_k)
  /\ pc = "search_call"
  /\ ret = PyNone
  /\ df = NoFrame /\ pos = 0 /\ documents = <<>> /\ exc = "none"
  /\ weaviate_client = PyNone /\ _client = PyNone /\ calls = <<>>
  /\ ext \in SearchExts

SearchCall ==
  /\ pc = "search_call"
  /\ ret' = search_weaviate(arg.query, arg.top_k, ext)
  /\ pc' = "search_done"
  /\ UNCHANGED <<df, pos, documents, exc, arg, svc>>

SpecSearch == InitSearch /\ [][SearchCall]_vars

-----------------------------------------------------------------------------
(* Properties *)

Returned == pc = "returned"
Raised == pc = "raised"

NumRows == Len(df.index)
Cell(p) == df.data["messages_json"][p]

\* the messages of a cell, as the parser hands them to the row loop
MessagesOf(cell) == parse_messages_json(cell).val

IsMessageSequence(v) == v.t = "list" /\ \A k \in 1..Len(v.items) : v.items[k].t = "dict"

\* the trimmed text of the k-th message of a sequence of message objects
TrimmedText(messages, k) == message_text(messages.items[k]).val

HasText(messages, k) ==
  /\ messages.items[k].t = "dict"
  /\ message_text(messages.items[k]).ok
  /\ TrimmedText(messages, k) # EmptyStr

\* a row whose messages field parses to a non-empty sequence with at least one
\* message of non-empty trimmed text
Qualifies(cell) ==
  /\ MessagesOf(cell).t = "list"
  /\ \E k \in 1..Len(MessagesOf(cell).items) : HasText(MessagesOf(cell), k)

\* texts in order, the empty ones left out, one newline between neighbours
RECURSIVE NewlineJoined(_)
NewlineJoined(texts) ==
  IF texts = <<>> THEN <<>>
  ELSE IF Head(texts) = <<>> THEN NewlineJoined(Tail(texts))
  ELSE IF NewlineJoined(Tail(texts)) = <<>> THEN Head(texts)
  ELSE Head(texts) \o <<"\n">> \o NewlineJoined(Tail(texts))

ExpectedContent(messages) ==
  NewlineJoined([k \in 1..Len(messages.items) |-> TrimmedText(messages, k)])

DocsWithIndex(docs, index) == {k \in 1..Len(docs) : docs[k].original_df_index = index}

\* exactly one document carries index, and it is the document of row p
OneDocumentFor(p, index) ==
  /\ Cardinality(DocsWithIndex(ret, index)) = 1
  /\ \A k \in DocsWithIndex(ret, index) : ret[k].content = ExpectedContent(MessagesOf(Cell(p)))

\* C1 (as stated): when the call returns, every row whose messages parse to a
\* non-empty sequence with some non-empty trimmed text has exactly one document,
\* and its original_df_index is the row's position in the input (0 for the first).
C1_IndexIsPosition ==
  Returned => \A p \in 1..NumRows : Qualifies(Cell(p)) => OneDocumentFor(p, p - 1)

\* C1 (amended): when the call returns, every such row has exactly one document,
\* and its original_df_index is the row's label in df.index, as df.iterrows()
\* yields it; with the default RangeIndex that label is the position.
C1_IndexIsRowLabel ==
  Returned => \A p \in 1..NumRows : Qualifies(Cell(p)) => OneDocumentFor(p, df.index[p])

\* a third row has its document after the two rows before it were skipped, in a
\* frame whose labels are not the positions
C1_Witness ==
  /\ Returned
  /\ NumRows = MaxRows
  /\ ~Qualifies(Cell(1)) /\ ~Qualifies(Cell(2)) /\ Qualifies(Cell(NumRows))
  /\ df.index[NumRows] # NumRows - 1
  /\ Len(ret) = 1
  /\ ret[1].original_df_index = df.index[NumRows]

\* C2: with the messages_json column present the call never raises, whatever a
\* row's messages field holds.
C2_MalformedRowNeverRaises == Raised => "messages_json" \notin Columns(df)

\* C3: parse_messages_json returns, and what it returns is a sequence of message
\* objects.
C3_ReturnsMessageSequence == pc = "parse_done" => ret.ok /\ IsMessageSequence(ret.val)

\* the row a document was made from: the row that carries its label
RowOf(doc) == CHOOSE p \in 1..NumRows : df.index[p] = doc.original_df_index
MessagesOfDoc(doc) == MessagesOf(Cell(RowOf(doc)))

\* C4: the content of every emitted document is the trimmed texts of its row's
\* messages in message order, the empty ones removed, joined by one newline.
C4_ContentIsJoinedTrimmedTexts ==
  \A k \in 1..Len(documents) :
    documents[k].content = ExpectedContent(MessagesOfDoc(documents[k]))

\* texts "a", " ", " b\n" of one row give the content "a\nb"
C4_Witness ==
  /\ Returned
  /\ \E k \in 1..Len(ret) :
       /\ Len(MessagesOfDoc(ret[k]).items) = MaxMsgs
       /\ [i \in 1..MaxMsgs |-> DictGet(MessagesOfDoc(ret[k]).items[i], K_text, PyNone)]
            = <<PyStr(S_a), PyStr(S_blank), PyStr(S_b)>>
       /\ ret[k].content = <<"a", "\n", "b">>

\* the date_unixtime values of a thread that are truthy
TruthyDates(messages) ==
  {messages.items[k].d[K_date_unixtime].n :
     k \in {i \in 1..Len(messages.items) :
              /\ K_date_unixtime \in DOMAIN messages.items[i].d
              /\ messages.items[i].d[K_date_unixtime] # PyInt(0)}}

Least(S) == CHOOSE x \in S : \A y \in S : x <= y
Greatest(S) == CHOOSE x \in S : \A y \in S : y <= x

\* C5: start_time and end_time of every emitted document are the least and the
\* greatest truthy date_unixtime of its row's messages, whatever their order;
\* both are None when there is none; neither is ever 0 or an infinity.
C5_TimeSpanIsMinMax ==
  \A k \in 1..Len(documents) :
    /\ IF TruthyDates(MessagesOfDoc(documents[k])) = {}
         THEN documents[k].start_time = PyNone /\ documents[k].end_time = PyNone
         ELSE /\ documents[k].start_time = PyInt(Least(TruthyDates(MessagesOfDoc(documents[k]))))
              /\ documents[k].end_time = PyInt(Greatest(TruthyDates(MessagesOfDoc(documents[k]))))
    /\ {documents[k].start_time, documents[k].end_time} \cap {PyInt(0), PyInf, PyNegInf} = {}

\* timestamps 2, 0, 1 in that order give start_time 1 and end_time 2
C5_Witness ==
  /\ Returned
  /\ \E k \in 1..Len(ret) :
       /\ Len(MessagesOfDoc(ret[k]).items) = MaxMsgs
       /\ DictGet(MessagesOfDoc(ret[k]).items[1], K_date_unixtime, PyNone) = PyInt(2)
       /\ DictGet(MessagesOfDoc(ret[k]).items[2], K_date_unixtime, PyNone) = PyInt(0)
       /\ DictGet(MessagesOfDoc(ret[k]).items[MaxMsgs], K_date_unixtime, PyNone) = PyInt(1)
       /\ ret[k].start_time = PyInt(1)
       /\ ret[k].end_time = PyInt(2)

HasTruthyId(msg) ==
  K_id \in DOMAIN msg.d /\ msg.d[K_id] \notin {PyInt(0), PyStr(EmptyStr), PyNone}

\* the ids of the messages that have a truthy one, in message order
RECURSIVE IdsInOrder(_)
IdsInOrder(items) ==
  IF items = <<>> THEN <<>>
  ELSE IF HasTruthyId(items[Len(items)])
    THEN Append(IdsInOrder(SubSeq(items, 1, Len(items) - 1)), items[Len(items)].d[K_id])
  ELSE IdsInOrder(SubSeq(items, 1, Len(items) - 1))

\* C6: decoding message_ids of every emitted document gives the list of the
\* truthy ids of its row's messages, in message order.
C6_MessageIdsDecode ==
  \A k \in 1..Len(documents) :
    json_loads(documents[k].message_ids)
      = Ok(PyList(IdsInOrder(MessagesOfDoc(documents[k]).items)))

\* ids 12, 0 and "\"1" in that order: message_ids decodes to [12, "\"1"]
C6_Witness ==
  /\ Returned
  /\ \E k \in 1..Len(ret) :
       /\ Len(MessagesOfDoc(ret[k]).items) = MaxMsgs
       /\ DictGet(MessagesOfDoc(ret[k]).items[2], K_id, PyNone) = PyInt(0)
       /\ json_loads(ret[k].message_ids) = Ok(PyList(<<PyInt(12), PyStr(S_quoted)>>))
       /\ ret[k].message_ids = <<"[", "1", "2", ",", " ", "\"", "\\", "\"", "1", "\"", "]">>

\* C7: the text normalisation of a message returns a str and raises nothing,
\* whatever the shape of its text field.
C7_NormalizationTotal == pc = "text_done" => ret.ok

IsSpace(c) == c \in {" ", "\n", "\t", "\r"}
Inked(s) == {i \in 1..Len(s) : ~IsSpace(s[i])}

\* s without its leading and trailing whitespace
Trimmed(s) ==
  IF Inked(s) = {} THEN <<>> ELSE SubSeq(s, Least(Inked(s)), Greatest(Inked(s)))

\* parts with exactly one space between neighbours
RECURSIVE SpaceJoined(_)
SpaceJoined(parts) ==
  IF parts = <<>> THEN <<>>
  ELSE IF Len(parts) = 1 THEN parts[1]
  ELSE SpaceJoined(SubSeq(parts, 1, Len(parts) - 1)) \o <<" ">> \o parts[Len(parts)]

\* the textual representation of a value that is neither a str nor a sequence
Textual(v) == IF v = PyNone THEN <<"N", "o", "n", "e">> ELSE IntToStr(v.n)

\* what one segment contributes
SegmentString(seg) ==
  CASE seg.t = "dict" -> IF K_text \in DOMAIN seg.d THEN seg.d[K_text].s ELSE <<>>
    [] seg.t = "str" -> seg.s
    [] OTHER -> Textual(seg)

\* the rule for each shape of the text field
ExpectedText(msg) ==
  IF K_text \notin DOMAIN msg.d THEN <<>>
  ELSE CASE msg.d[K_text].t = "str" -> Trimmed(msg.d[K_text].s)
         [] msg.d[K_text].t = "list" ->
              Trimmed(SpaceJoined([k \in 1..Len(msg.d[K_text].items) |->
                                     SegmentString(msg.d[K_text].items[k])]))
         [] OTHER -> Trimmed(Textual(msg.d[K_text]))

\* C8: whenever the normalisation yields a text, it is the one the rule of the
\* text field's shape gives: a str as it is, segments joined by one space each
\* (an object segment giving its text field or "", a str segment itself), a
\* missing field "", any other value its textual representation; then trimmed.
C8_TextFollowsShapeRule == (pc = "text_done" /\ ret.ok) => ret.val = ExpectedText(arg)

\* [{"text": "Hello"}, " world"] gives "Hello  world"
C8_Witness ==
  /\ pc = "text_done"
  /\ DictGet(arg, K_text, PyNone) = PyList(<<PyDict(K_text :> PyStr(S_Hello)), PyStr(S_world)>>)
  /\ ret = Ok(<<"H", "e", "l", "l", "o", " ", " ", "w", "o", "r", "l", "d">>)

\* C9: on a frame without the messages_json column the call raises ValueError
\* with no row consumed, no document made and nothing returned.
C9_MissingColumnRaisesFirst ==
  ("messages_json" \notin Columns(df) /\ pc # "start") =>
    /\ Raised
    /\ exc = "ValueError"
    /\ pos = 0
    /\ documents = <<>>
    /\ ret = PyNone

\* a frame of MaxRows rows without the column: ValueError before the first row
C9_Witness ==
  /\ Raised
  /\ exc = "ValueError"
  /\ NumRows = MaxRows
  /\ "other_col" \in Columns(df)
  /\ pos = 0

\* C10: the returned documents are in the order of their rows, and every entry
\* is the document of a row that has text: a skipped row leaves no entry.
C10_DocumentsInRowOrder ==
  Returned =>
    /\ \A j, k \in 1..Len(ret) : j < k => RowOf(ret[j]) < RowOf(ret[k])
    /\ \A k \in 1..Len(ret) : ret[k].content # EmptyStr /\ Qualifies(Cell(RowOf(ret[k])))
    /\ Len(ret) = Cardinality({p \in 1..NumRows : Qualifies(Cell(p))})

\* rows 1 and 3 give the two documents, row 2 is skipped, labels run downwards
C10_Witness ==
  /\ Returned
  /\ NumRows = MaxRows
  /\ df.index = Descending(NumRows)
  /\ ~Qualifies(Cell(2))
  /\ Len(ret) = 2
  /\ ret[1].original_df_index = df.index[1]
  /\ ret[2].original_df_index = df.index[NumRows]

\* a row whose messages field parses to the empty sequence, or whose messages
\* all have empty text after trimming
NoTextRow(cell) ==
  /\ parse_messages_json(cell).ok
  /\ MessagesOf(cell).t = "list"
  /\ \A k \in 1..Len(MessagesOf(cell).items) :
       /\ MessagesOf(cell).items[k].t = "dict"
       /\ message_text(MessagesOf(cell).items[k]).ok
       /\ TrimmedText(MessagesOf(cell), k) = EmptyStr

\* the rows of the frame that have text / that have none
ValidRows == {p \in 1..NumRows : Qualifies(Cell(p))}
NoTextRows == {p \in 1..NumRows : NoTextRow(Cell(p))}

\* C11: a row that parses to the empty sequence or whose messages all trim to
\* empty text has no document among the returned ones, every returned document
\* has non-empty content, and a frame of one valid row and one such row returns
\* exactly one document, which carries the valid row's index.
C11_NoTextRowsGiveNoDocument ==
  Returned =>
    /\ \A p \in NoTextRows : DocsWithIndex(ret, df.index[p]) = {}
    /\ \A k \in 1..Len(ret) : ret[k].content # EmptyStr
    /\ (NumRows = 2 /\ Cardinality(ValidRows) = 1 /\ Cardinality(NoTextRows) = 1) =>
         /\ Len(ret) = 1
         /\ \A p \in ValidRows : ret[1].original_df_index = df.index[p]

\* a blank-text row first, a valid row second, labels that are not positions:
\* one document, carrying the second row's label
C11_Witness ==
  /\ Returned
  /\ NumRows = 2
  /\ Cell(1) = PyStr(json_dumps(PyList(<<M_blank>>)))
  /\ Cell(2) = PyStr(json_dumps(PyList(<<M_a>>)))
  /\ df.index = Shifted(2)
  /\ Len(ret) = 1
  /\ ret[1].original_df_index = 4
  /\ ret[1].content = S_a

-----------------------------------------------------------------------------
(* Properties of the application *)

Served503 == <<"Weaviate client not available. Check server logs.">>
GuardedPaths == {"/index-data/", "/query/", "/clear-index/"}

\* a request to one of the three guarded endpoints has been answered
GuardedServed == pc = "served" /\ arg.path \in GuardedPaths

\* the names of the calls the handler made
Called == {calls[k].fn : k \in 1..Len(calls)}

\* C12: while the handle weaviate_client is unset, every request to /index-data/,
\* /query/ and /clear-index/ is answered 503 "Weaviate client not available" and
\* the handler makes no call: no file parsing, document preparation, indexing,
\* search, completion or deletion.
C12_UnsetHandleAnswers503 ==
  (GuardedServed /\ weaviate_client = PyNone) =>
    /\ ret.status = 503
    /\ ret.body = [detail |-> Served503]
    /\ calls = <<>>

\* startup failed, then a csv upload of one valid row with every service
\* answering is turned away with 503
C12_Witness ==
  /\ GuardedServed
  /\ weaviate_client = PyNone
  /\ arg.path = "/index-data/"
  /\ arg.file.filename = PyStr(F_csv)
  /\ arg.file.table = Ok(DataFrame(RangeIndex(1), "messages_json",
                                   <<PyStr(json_dumps(PyList(<<M_a>>)))>>))
  /\ ext = Calm
  /\ ret.status = 503

InvalidFileType == <<"Invalid file type. Please upload CSV or Parquet.">>
MissingColumn == <<"DataFrame must contain 'messages_json' column.">>

\* an upload has been answered with the client available
UploadServed == pc = "served" /\ arg.path = "/index-data/" /\ weaviate_client # PyNone

\* the upload's file name is a str with the suffix
NamedLike(suffix) ==
  /\ arg.file.filename.t = "str"
  /\ Len(arg.file.filename.s) >= Len(suffix)
  /\ \A k \in 1..Len(suffix) :
       arg.file.filename.s[Len(arg.file.filename.s) - Len(suffix) + k] = suffix[k]

WrongType == ~NamedLike(<<".", "c", "s", "v">>) /\ ~NamedLike(<<".", "p", "a", "r", "q", "u", "e", "t">>)

\* the upload has a file name
Named == arg.file.filename.t = "str" /\ arg.file.filename.s # <<>>

\* the upload's contents were read as a table without the messages_json column
LacksColumn ==
  /\ ~WrongType
  /\ arg.file.table.ok
  /\ "messages_json" \notin DOMAIN arg.file.table.val.data

Rejected400(detail) ==
  /\ ret.status = 400
  /\ ret.body = [detail |-> detail]
  /\ "prepare_documents_from_df" \notin Called
  /\ "index_documents" \notin Called

\* C13 (as stated): with the client available, an upload whose file name ends in
\* neither .csv nor .parquet is answered 400 naming the expected file types, and
\* an upload whose table lacks messages_json is answered 400 naming the column;
\* neither is made a 500, and neither prepares nor indexes documents.
C13_WrongTypeIs400NamingTypes ==
  UploadServed =>
    /\ WrongType => Rejected400(InvalidFileType)
    /\ LacksColumn => Rejected400(MissingColumn)

\* C13 (amended): the same for an upload that has a file name; an upload
\* without a file name is answered 400 "File must have a filename.".
C13_NamedWrongTypeIs400NamingTypes ==
  UploadServed =>
    /\ (WrongType /\ Named) => Rejected400(InvalidFileType)
    /\ (WrongType /\ ~Named) => Rejected400(<<"File must have a filename.">>)
    /\ LacksColumn => Rejected400(MissingColumn)

\* t.CSV, with contents that would read as a table of one valid row, is turned
\* away naming the file types and nothing is read
C13_Witness ==
  /\ UploadServed
  /\ arg.file.filename = PyStr(<<"t", ".", "C", "S", "V">>)
  /\ arg.file.table.ok
  /\ ret.status = 400
  /\ ret.body = [detail |-> InvalidFileType]
  /\ calls = <<>>

\* a query has been answered with the client available
QueryServed == pc = "served" /\ arg.path = "/query/" /\ weaviate_client # PyNone

\* what search_weaviate handed to the handler, and the completion the handler asked for
Retrieval == calls[1].result
CompletionCalls == {k \in 1..Len(calls) : calls[k].fn = "get_chat_completion"}
RetrievedNothing == Retrieval.ok /\ Retrieval.val = PyList(<<>>)
RetrievedSome == Retrieval.ok /\ Retrieval.val.t = "list" /\ Retrieval.val.items # <<>>

\* the contents of the hits in order, the context separator between neighbours
RECURSIVE ContentsOf(_)
ContentsOf(hits) ==
  IF Len(hits) = 1 THEN Head(hits).d["content"].s
  ELSE Head(hits).d["content"].s \o <<"\n", "\n", "-", "-", "-", "\n", "\n">> \o ContentsOf(Tail(hits))

\* entry k of retrieved_contexts is made from hit k
EntryOf(entry, hit) ==
  /\ Len(entry.content_preview) = Len(hit.d["content"].s) + 3
  /\ SubSeq(entry.content_preview, 1, Len(hit.d["content"].s)) = hit.d["content"].s
  /\ "original_df_index" \in DOMAIN hit.d => entry.original_df_index = hit.d["original_df_index"]

\* C14: a query answered with the client available.  When retrieval returns no
\* documents the completion is asked for with no context, and the answer is 200,
\* begins "No relevant context found" and lists no contexts.  When it returns
\* documents the completion is asked for with their contents as context, the
\* answer is the completion's text, and retrieved_contexts has one entry per
\* document in retrieval order.
C14_AnswerFollowsRetrieval ==
  QueryServed =>
    /\ RetrievedNothing =>
         /\ ret.status = 200
         /\ CompletionCalls = {2}
         /\ calls[2].args = [prompt |-> arg.body.query, context |-> PyNone]
         /\ Head(ret.body.answer) = "No relevant context found. General knowledge answer: "
         /\ Tail(ret.body.answer) = calls[2].result.val.s
         /\ ret.body.retrieved_contexts = <<>>
    /\ RetrievedSome =>
         /\ ret.status = 200
         /\ CompletionCalls = {2}
         /\ calls[2].args =
              [prompt |-> arg.body.query, context |-> PyStr(ContentsOf(Retrieval.val.items))]
         /\ ret.body.answer = calls[2].result.val.s
         /\ Len(ret.body.retrieved_contexts) = Len(Retrieval.val.items)
         /\ \A k \in 1..Len(Retrieval.val.items) :
              EntryOf(ret.body.retrieved_contexts[k], Retrieval.val.items[k])

\* two hits retrieved, the one without an index first: the completion's text is
\* the answer and the two contexts are in retrieval order
C14_Witness ==
  /\ QueryServed
  /\ RetrievedSome
  /\ Retrieval.val.items = <<H_bare, H_first>>
  /\ ret.status = 200
  /\ ret.body.answer = <<"T", "b", "i", "l", "i", "s", "i">>
  /\ ret.body.retrieved_contexts[1].original_df_index = PyStr(<<"N/A">>)
  /\ ret.body.retrieved_contexts[2].original_df_index = PyInt(0)

\* C15: when the completion provider call fails, get_chat_completion raises
\* nothing and returns the apology string, and the query whose retrieval
\* returned is answered 200 with it.
C15_CompletionFailureGivesApology ==
  (QueryServed /\ Retrieval.ok /\ ~ext.completion.ok) =>
    /\ CompletionCalls = {2}
    /\ calls[2].result =
         Ok(PyStr(<<"Sorry, I encountered an error while generating a response.">>))
    /\ ret.status = 200
    /\ ret.body.answer # <<>>
    /\ ret.body.answer[Len(ret.body.answer)] =
         "Sorry, I encountered an error while generating a response."

\* one hit retrieved and the provider's response without choices: 200 with the
\* apology as the answer
C15_Witness ==
  /\ QueryServed
  /\ ext.completion = Raise("IndexError")
  /\ RetrievedSome
  /\ Len(Retrieval.val.items) = 1
  /\ ret.status = 200
  /\ ret.body.answer = <<"Sorry, I encountered an error while generating a response.">>

\* an external service failed while the request was handled: the embedding call
\* or the vector store on search, deletion or indexing (the completion aside)
SearchFailed ==
  /\ arg.path = "/query/"
  /\ arg.body.query \in ext.no_embedding \/ ext.query \in {"get_raises", "do_raises"}
DeletionFailed ==
  /\ arg.path = "/clear-index/"
  /\ ext.exists = "raises" \/ (ext.exists = "yes" /\ ext.delete_class = "raises")
SchemaFailed ==
  \/ ext.schema_get \in {"500", "unreachable"}
  \/ ext.schema_get = "404" /\ ext.create_class = "raises"
IndexingFailed ==
  /\ arg.path = "/index-data/"
  /\ \E k \in 1..Len(calls) :
       /\ calls[k].fn = "index_documents"
       /\ \/ SchemaFailed
          \/ ext.flush = "raises"
          \/ \E j \in 1..Len(calls[k].args) : calls[k].args[j].content \in ext.no_embedding
ServiceFailed == SearchFailed \/ DeletionFailed \/ IndexingFailed

\* C16: a request during which an external service failed (the completion
\* aside) is answered 503 or 502, never with a success and never with a 500.
C16_ServiceFailureIs50x ==
  (GuardedServed /\ weaviate_client # PyNone /\ ServiceFailed) => ret.status \in {502, 503}

\* C17: GET /api/v1/ping on the application of app.main is answered 200 with
\* the body {"ping": "pong"}.
C17_PingAnswersPong ==
  (pc = "served" /\ arg.method = "GET" /\ arg.path = "/api/v1/ping") =>
    /\ ret.status = 200
    /\ ret.body = [ping |-> "pong"]

\* the attempts at which a client was constructed and found ready
ReadyAttempts == {k \in 1..Len(calls) : calls[k].args = "ready"}

\* C18: between calls of get_weaviate_client the cache is unset or holds a
\* client whose readiness check succeeded; an attempt that finds the store not
\* ready or cannot connect raises (ConnectionError when not ready) and leaves the
\* cache unset, so that the next call connects anew; after a successful call no
\* other client is constructed and every call returns the cached one.
C18_CacheHoldsOnlyReadyClient ==
  pc = "client" =>
    /\ _client # PyNone => _client.t = "client" /\ _client.is_ready = "ready"
    /\ \A k \in 1..Len(calls) :
         /\ calls[k].args # "ready" => ~calls[k].result.ok
         /\ calls[k].args = "not_ready" => calls[k].result = Raise("ConnectionError")
         /\ calls[k].args = "ready" => calls[k].result.ok /\ k = Len(calls)
    /\ ReadyAttempts = {} => _client = PyNone
    /\ ReadyAttempts # {} => _client = calls[Len(calls)].result.val /\ ret = Ok(_client)
    /\ Cardinality(ReadyAttempts) <= 1

\* not ready, then refused, then ready: the third client constructed is the
\* cached one, and the call returned it
C18_Witness ==
  /\ pc = "client"
  /\ Len(calls) = 3
  /\ calls[1].args = "not_ready"
  /\ calls[2].args = "refused"
  /\ calls[3].args = "ready"
  /\ _client.id = 3
  /\ ret = Ok(_client)

\* the loop of index_documents was entered: the schema was there or was created
SchemaReady == ext.schema_get = "found" \/ (ext.schema_get = "404" /\ ext.create_class = "ok")

WithContent(doc) == "content" \in DOMAIN doc /\ Len(doc.content) > 0

\* the input of the embedding call for a content: newlines made spaces
Flat(content) == [k \in 1..Len(content) |-> IF content[k] = "\n" THEN " " ELSE content[k]]

\* the document's embedding was computed
Computed(doc) == SchemaReady /\ WithContent(doc) /\ Flat(doc.content) \notin ext.no_embedding

\* the documents of the input that are to be in the batch, in input order
RECURSIVE ToAdd(_)
ToAdd(docs) ==
  IF docs = <<>> THEN <<>>
  ELSE IF Computed(Head(docs)) THEN <<Head(docs)>> \o ToAdd(Tail(docs))
  ELSE ToAdd(Tail(docs))

\* the documents of the input an embedding is asked for
RECURSIVE ToEmbed(_)
ToEmbed(docs) ==
  IF docs = <<>> THEN <<>>
  ELSE IF SchemaReady /\ WithContent(Head(docs)) THEN <<Head(docs)>> \o ToEmbed(Tail(docs))
  ELSE ToEmbed(Tail(docs))

\* C19: the objects index_documents adds to the batch are, in input order, one
\* for each document with non-empty content whose embedding was computed, each
\* with the document's properties and its embedding; for a document with missing
\* or empty content no embedding is requested and nothing is added.
C19_BatchHoldsEmbeddedDocuments ==
  pc = "index_done" =>
    /\ Len(ret.added) = Len(ToAdd(arg))
    /\ \A k \in 1..Len(ret.added) :
         /\ ret.added[k].data_object = ToAdd(arg)[k]
         /\ ret.added[k].vector = [t |-> "vector", input |-> Flat(ToAdd(arg)[k].content)]
         /\ ret.added[k].class_name = "ChatThread"
    /\ Len(ret.embedded) = Len(ToEmbed(arg))
    /\ \A k \in 1..Len(ret.embedded) : ret.embedded[k] = ToEmbed(arg)[k].content

\* an empty document, one whose embedding fails and one of two lines: two
\* embeddings asked for, the third document alone added
C19_Witness ==
  /\ pc = "index_done"
  /\ arg = <<D_empty, D_a, D_lines>>
  /\ ext.no_embedding = {S_a}
  /\ ret.embedded = <<S_a, S_lines>>
  /\ Len(ret.added) = 1
  /\ ret.added[1].data_object = D_lines
  /\ ret.added[1].vector.input = <<"b", " ", "c">>

\* search_weaviate has made its vector-store query: the query embedding was computed
Queried == pc = "search_done" /\ arg.query \notin ext.no_embedding

\* the query raised while it was built, executed, or while its hits were extracted
QueryRaised == ext.query \in {"get_raises", "do_raises", "data_null"}

\* the response has no data.Get.<class name> path
PathAbsent == ext.query \in {"errors", "no_get", "no_class"}

\* the hits the store answers with: the nearest ones, top_k at most
Answered ==
  [k \in 1..(IF arg.top_k < Len(ext.nearest) THEN arg.top_k ELSE Len(ext.nearest)) |->
     ext.nearest[k]]

\* C20: when the vector-store query raises at any step, search_weaviate raises
\* nothing and returns the empty list; when it succeeds it returns the hits found
\* under the class name, or the empty list when the response has no such path.
C20_SearchReturnsHitsOrEmpty ==
  Queried =>
    /\ ret.ok
    /\ QueryRaised => ret.val = PyList(<<>>)
    /\ PathAbsent => ret.val = PyList(<<>>)
    /\ ext.query = "hits" => ret.val = PyList(Answered)

\* the store holds two hits and the query fails when executed: the empty list
C20_Witness ==
  /\ Queried
  /\ ext.query = "do_raises"
  /\ Len(ext.nearest) = 2
  /\ ret = Ok(PyList(<<>>))

\* the time span of a document is absent, or a pair in order
Paired(doc) ==
  IF doc.start_time = PyNone THEN doc.end_time = PyNone
  ELSE /\ doc.end_time # PyNone
       /\ doc.start_time.t = "int" /\ doc.end_time.t = "int"
       /\ doc.start_time.n <= doc.end_time.n

\* the time span of a document comes from the messages of its own row
FromOwnRow(doc, dates) ==
  IF dates = {} THEN doc.start_time = PyNone /\ doc.end_time = PyNone
  ELSE doc.start_time # PyNone /\ doc.start_time.n \in dates /\ doc.end_time.n \in dates

\* C21: in every emitted document start_time and end_time are both None or both
\* set, start_time <= end_time when set, and both come from the timestamps of the
\* document's own row: a row without timestamps gets None whatever the rows before
\* it held.
C21_TimeSpanPairedPerRow ==
  \A k \in 1..Len(documents) :
    /\ Paired(documents[k])
    /\ FromOwnRow(documents[k], TruthyDates(MessagesOfDoc(documents[k])))

\* a row with timestamps 1 and 2, then a row without any, then a row whose only
\* timestamp is 0: the span 1..2 and two absent spans
C21_Witness ==
  /\ Returned
  /\ df.data["messages_json"] = <<PyList(<<M_b, M_a>>), PyList(<<M_plain>>), PyList(<<M_zero>>)>>
  /\ Len(ret) = 3
  /\ ret[1].start_time = PyInt(1) /\ ret[1].end_time = PyInt(2)
  /\ ret[2].start_time = PyNone /\ ret[2].end_time = PyNone
  /\ ret[3].start_time = PyNone /\ ret[3].end_time = PyNone

\* GET /health has been answered
HealthServed == pc = "served" /\ arg.method = "GET" /\ arg.path = "/health"

\* C22: /health reports the overall status "healthy" only when the readiness probe
\* answered 200: with another status code or a failed probe request the overall
\* status is not "healthy".
C22_HealthyOnlyWhenProbe200 ==
  (HealthServed /\ ret.body.status = "healthy") => ext.probe = "200"

\* the success message of /clear-index/
ClearedMessage ==
  [message |-> <<"Successfully cleared all data from Weaviate class '", WEAVIATE_CLASS_NAME, "'.">>]

\* C23: with the client available, when the existence check or the delete call of
\* the vector store raises, /clear-index/ answers 500 and not 200 with the
\* "Successfully cleared" message.
C23_FailedDeletionIs500 ==
  (pc = "served" /\ weaviate_client # PyNone /\ DeletionFailed) =>
    /\ ret.status = 500
    /\ ret.body # ClearedMessage

\* one step of the application leaves the handle as startup left it, startup
\* ends in serving whatever the connection attempt gave, and a guarded request
\* met with the handle unset is answered 503
HandleKept ==
  /\ pc = "startup" => pc' = "serving"
  /\ pc # "startup" => weaviate_client' = weaviate_client
  /\ (pc' = "served" /\ arg'.path \in GuardedPaths /\ weaviate_client = PyNone) =>
       ret'.status = 503 /\ calls' = <<>>

\* C24: the handle is assigned only during startup. When the connection attempt
\* of startup fails the application still serves, the handle stays unset from
\* then on and every request to /index-data/, /query/ and /clear-index/ is
\* answered 503 though the vector store answers; a handle that was set is never
\* unset.
C24_HandleAssignedOnlyAtStartup == [][HandleKept]_vars

\* startup failed; the store now answers (the class exists and can be deleted),
\* and /clear-index/ is still answered 503
C24_Witness ==
  /\ pc = "served"
  /\ weaviate_client = PyNone
  /\ _client = PyNone
  /\ arg.path = "/clear-index/"
  /\ ext.exists = "yes" /\ ext.delete_class = "ok"
  /\ ret.status = 503

\* the contents of the documents, in order
Contents(docs) == [j \in 1..Len(docs) |-> docs[j].content]

\* index_documents went through every document of docs and returned: each
\* content was handed to get_embedding, and add_data_object was called for each
\* document whose embedding was computed, in order
WentThrough(docs, indexed) ==
  /\ indexed.r.ok
  /\ indexed.embedded = Contents(docs)
  /\ Len(indexed.added) = Len(ToAdd(docs))
  /\ \A j \in 1..Len(indexed.added) : indexed.added[j].data_object = ToAdd(docs)[j]

\* the answer that reports n documents
Reported(n) ==
  [message |-> <<"Successfully processed and initiated indexing for ", Digits[n + 1],
                 " documents.">>]

\* C25: with the schema in place and the batch sent, a document whose embedding
\* or add_data_object call fails stops nothing: index_documents goes on through
\* the remaining documents in order and returns, and /index-data/ answers 200
\* reporting the count of all prepared documents.
C25_DocumentFailureIsIsolated ==
  (UploadServed /\ SchemaReady /\ ext.flush = "ok") =>
    \A k \in 1..Len(calls) :
      calls[k].fn = "index_documents" =>
        /\ WentThrough(calls[k].args, calls[k].result)
        /\ ret.status = 200
        /\ ret.body = Reported(Len(calls[k].args))

\* two documents, "a" whose embedding fails and "b" whose add_data_object call
\* raises: both are gone through, nothing reaches the store, and the answer is
\* 200 reporting 2 documents
C25_Witness ==
  /\ UploadServed /\ SchemaReady /\ ext.flush = "ok"
  /\ ext.no_embedding = {S_a} /\ ext.no_add = {<<"b">>}
  /\ Len(calls) = 3
  /\ calls[3].fn = "index_documents"
  /\ Contents(calls[3].args) = <<S_a, <<"b">>>>
  /\ calls[3].result.embedded = <<S_a, <<"b">>>>
  /\ Len(calls[3].result.added) = 1
  /\ ret.status = 200
  /\ ret.body = Reported(2)

====
